---- MODULE Spec2Model ----
(***************************************************************************)
(* Model of the chat relay server of encrypted-socket-messenger-2022:      *)
(*   - MessageHandler (src/src/message_handler.py): the in-memory message  *)
(*     store and its query language;                                       *)
(*   - Server (src/src/server.py): the connection state machine, the       *)
(*     inbound loop and the message dispatcher.                            *)
(* Python lists are modelled as sequences (index j of Python is j + 1      *)
(* here), dicts as records, None as NULL.                                  *)
(***************************************************************************)
EXTENDS Integers, Sequences, FiniteSets, TLC

\* ------------------------------------------------------------------------
\* Bounds of the model
\* ------------------------------------------------------------------------

\* client-side timestamps (the header's client_sent) range over 1..MaxTs
MaxTs == 2
\* client-side timestamps of the messages and receipts the server reads
\* range over 1..MaxSent
MaxSent == 1
\* documents kept in client_messages
MaxMsgs == 1
\* notices kept in server_messages: while peers come and go, while every
\* peer stays, and with two dispatcher threads
MaxNotices == 6
MaxStayNotices == 8
MaxTwoNotices == 4
\* documents in client_messages when no dispatcher runs
MaxAckMsgs == 2
\* notices in server_messages when no dispatcher runs
MaxPeerNotices == 5
\* recipient entries of a document appended directly to a store
MaxRecipients == 2
\* documents in the store of the query-engine specification
MaxDocs == 2
MaxIdDocs == 3
MaxRaceConns == 2
\* notices in server_messages while clients leave and come back
MaxRejoinNotices == 12
\* the transmission log counts up to MaxCount and saturates there
MaxCount == 2

\* words of a query string, the AND that joins two of them apart
MaxWords == 2
\* the clock is read up to MaxClock seconds after TIMEOUT_SECONDS, and
\* message_dispatcher is called with __timeout 0 or MaxTimeout
MaxClock == 3
MaxTimeout == 1

\* ------------------------------------------------------------------------
\* Values
\* ------------------------------------------------------------------------

\* Python None, in the datetime | None fields and as the missing sub-index
\* of an access point; real timestamps and indices are >= 1
NULL == 0

\* a value that is not None and no datetime, such as a string
NotADatetime == -1

\* TIMEOUT_SECONDS of the environment, a number of seconds
TIMEOUT_SECONDS == 1

\* usernames clients may give
Names == {"a", "b", "c"}

\* connections (client sockets); a connection's peer address is its number
Conns == {1, 2, 3}

\* pickle.dumps(client_socket.getpeername()): a bytes value, never equal to
\* a username
PickledAddr == <<"addr#1", "addr#2", "addr#3">>

pickle_dumps(addr) == PickledAddr[addr]

is_bytes(client_name) == \E a \in Conns : PickledAddr[a] = client_name

pickle_loads(client_name) == CHOOSE a \in Conns : PickledAddr[a] = client_name

\* the address the server socket is bound to
ServerAddr == 0

\* datetime.now() read for timestamps.server_received and for
\* message_sent_at: the server only ever tests these fields against None, so
\* every reading is kept as one datetime
now == 1

Min(a, b) == IF a <= b THEN a ELSE b

\* ------------------------------------------------------------------------
\* schema.py
\* ------------------------------------------------------------------------

\* an id derived whatever the caller gives
get_message_id_derived(message_id, timestamp, addr) == <<timestamp, addr>>

\* an id derived from the timestamp alone
get_message_id_of_timestamp(message_id, timestamp, addr) ==
    IF message_id = <<>> THEN <<timestamp, ServerAddr>> ELSE message_id

\* get_message_id: strftime("%Y%m%d%H%M%S%f") of the timestamp followed by
\* the zero-padded address; fixed widths make the concatenation a pairing
get_message_id(message_id, timestamp, addr) ==
    IF message_id = <<>> THEN <<timestamp, addr>> ELSE message_id

\* UserStatus(client_name=...): both timestamps default to None
UserStatus(client_name) ==
    [client_name |-> client_name,
     message_sent_at |-> NULL,
     message_received_at |-> NULL]

\* MessageSchema(**kwargs).dict()
MessageSchema(message_id, client_name, client_sent, server_received, client_address, broadcasted) ==
    [client_name |-> client_name,
     timestamps |-> [client_sent |-> client_sent, server_received |-> server_received],
     client_address |-> client_address,
     broadcasted |-> broadcasted,
     message_id |-> get_message_id(message_id, client_sent, client_address)]

\* ServerClientCommunicationSchema(**kwargs).dict(); the root validator
\* always derives message_id from created_at and server_addr
ServerClientCommunicationSchema(response_type, info, created_at, broadcasted) ==
    [response_type |-> response_type,
     info |-> info,
     created_at |-> created_at,
     broadcasted |-> broadcasted,
     server_addr |-> ServerAddr,
     message_id |-> get_message_id(<<>>, created_at, ServerAddr)]

\* fields whose value is a list of embedded documents
ListFields == {"broadcasted"}

\* fields tagged description="MODIFIABLE", as paths
ModifiableFields ==
    {<<"broadcasted">>,
     <<"broadcasted", "message_sent_at">>,
     <<"broadcasted", "message_received_at">>}

\* ------------------------------------------------------------------------
\* message_handler.py: SortByDate
\* ------------------------------------------------------------------------

\* find_datetime_value_key(_dict): the paths of the datetime-valued fields,
\* in dict order
find_datetime_value_key(_dict) ==
    IF "timestamps" \in DOMAIN _dict
    THEN << <<"timestamps", "client_sent">>, <<"timestamps", "server_received">> >>
    ELSE << <<"created_at">> >>

sort_key(x, keys) ==
    IF Len(keys) = 1 THEN x[keys[1]] ELSE x[keys[1]][keys[2]]

\* an insertion that keeps the order of arrival
insert_at_tail(sorted, x, keys) == Append(sorted, x)

\* one element placed before every element whose key is not less
insert_before_equal(sorted, x, keys) ==
    LET n == Cardinality({k \in 1..Len(sorted) : sort_key(sorted[k], keys) < sort_key(x, keys)})
    IN  SubSeq(sorted, 1, n) \o <<x>> \o SubSeq(sorted, n + 1, Len(sorted))

\* one element placed behind every element whose key is not greater
insert_sorted(sorted, x, keys) ==
    LET n == Cardinality({k \in 1..Len(sorted) : sort_key(sorted[k], keys) <= sort_key(x, keys)})
    IN  SubSeq(sorted, 1, n) \o <<x>> \o SubSeq(sorted, n + 1, Len(sorted))

RECURSIVE sort_prefix(_, _, _)
sort_prefix(_list, keys, n) ==
    IF n = 0 THEN <<>>
    ELSE insert_sorted(sort_prefix(_list, keys, n - 1), _list[n], keys)

\* sorted(_list, key=...): Python's sort is stable
sort_by_date(_list, keys) == sort_prefix(_list, keys, Len(_list))

\* ------------------------------------------------------------------------
\* message_handler.py: MessageHandler
\* ------------------------------------------------------------------------

\* MessageHandler(schema, sort_messages_by_date=True) after construction;
\* timestamp_key None is the empty path
MessageHandler == [waiting_messages |-> <<>>, timestamp_key |-> <<>>]

\* append_message, the else branch: append at the tail, fix the sort key on
\* the first append, re-sort the whole list
append_message(mh, message) ==
    LET appended == Append(mh.waiting_messages, message)
        timestamp_key == IF mh.timestamp_key = <<>>
                         THEN find_datetime_value_key(appended[1])[1]
                         ELSE mh.timestamp_key
    IN  [waiting_messages |-> sort_by_date(appended, timestamp_key),
         timestamp_key |-> timestamp_key]

\* the fields of MessageSchema a call gives (header and message carry no
\* behaviour and are left out); message_id is optional
SchemaFields == {"client_name", "timestamps", "client_address", "broadcasted", "message_id"}

RequiredFields == SchemaFields \ {"message_id"}

\* self.Schema(**kwargs) validates: no undefined field (Extra.forbid), every
\* required field given, a datetime where one is wanted
schema_accepts(kwargs) ==
    /\ DOMAIN kwargs \subseteq SchemaFields
    /\ RequiredFields \subseteq DOMAIN kwargs
    /\ kwargs.timestamps.client_sent # NULL

\* a rejection that empties the store
rejected_and_cleared(mh) == [mh |-> MessageHandler, err |-> TRUE]

\* lines 64-66: the ValidationError is raised again, nothing else is done
rejected(mh) == [mh |-> mh, err |-> TRUE]

\* append_message(**kwargs) on a MessageHandler(MessageSchema), lines 58-80
append_kwargs(mh, kwargs) ==
    IF schema_accepts(kwargs)
    THEN [mh |-> append_message(mh,
                     MessageSchema(kwargs.message_id, kwargs.client_name, kwargs.timestamps.client_sent,
                         now, kwargs.client_address,
                         [k \in 1..Len(kwargs.broadcasted) |-> UserStatus(kwargs.broadcasted[k])])),
          err |-> FALSE]
    ELSE rejected(mh)

\* the comparison tokens of __validate_string_condition and their operator
\* functions
OrderedOps == {">=", "<=", ">", "<"}

LogicalOps == {"==", "!="} \cup OrderedOps

logical_func(func, a, b) ==
    CASE func = "==" -> a = b
      [] func = "!=" -> a # b
      [] func = ">=" -> a >= b
      [] func = "<=" -> a <= b
      [] func = ">" -> a > b
      [] func = "<" -> a < b

\* an ordering comparison with None raises TypeError
raises_type_error(func, a, b) ==
    func \in OrderedOps /\ (a = NULL \/ b = NULL)

\* the values a condition is compared with in one message: the field
\* itself, the field of the nested record, or the field of every element of
\* the embedded list
compared_values(message, c) ==
    IF Len(c.key) = 1 THEN {message[c.key[1]]}
    ELSE IF c.key[1] \in ListFields
    THEN {message[c.key[1]][j][c.key[2]] : j \in 1..Len(message[c.key[1]])}
    ELSE {message[c.key[1]][c.key[2]]}

\* get_messages, lines 253-260: the elements of the embedded list that meet
\* condition c
sub_matches(message, c) ==
    IF Len(c.key) = 2 /\ c.key[1] \in ListFields
    THEN {j \in 1..Len(message[c.key[1]]) :
             logical_func(c.func, message[c.key[1]][j][c.key[2]], c.val)}
    ELSE {}

\* what one condition adds to the counter 'passing': 1 for a met condition
\* on a field or a nested record, 1 for EACH element of an embedded list that
\* meets it
cond_passing(message, c) ==
    IF Len(c.key) = 1
    THEN IF logical_func(c.func, message[c.key[1]], c.val) THEN 1 ELSE 0
    ELSE IF c.key[1] \in ListFields
    THEN Cardinality(sub_matches(message, c))
    ELSE IF logical_func(c.func, message[c.key[1]][c.key[2]], c.val) THEN 1 ELSE 0

RECURSIVE passing(_, _, _)
passing(message, _cond, n) ==
    IF n = 0 THEN 0
    ELSE passing(message, _cond, n - 1) + cond_passing(message, _cond[n])

\* sub_indices, as a set
sub_indices(message, _cond) ==
    UNION {sub_matches(message, _cond[n]) : n \in 1..Len(_cond)}

\* line 276: the message is found when the counter equals the number of
\* conditions
message_found(message, _cond) ==
    passing(message, _cond, Len(_cond)) = Len(_cond)

\* line 285: list({v["message_id"]: v for v in messages_found}.values()):
\* one entry per id, at the place of the id's first message, holding the
\* id's last message
unique_by_id(messages_found) ==
    LET n == Len(messages_found)
        is_first(k) == \A h \in 1..(k - 1) : messages_found[h].message_id # messages_found[k].message_id
        last_of(k) == CHOOSE h \in k..n :
                      /\ messages_found[h].message_id = messages_found[k].message_id
                      /\ \A g \in (h + 1)..n : messages_found[g].message_id # messages_found[k].message_id
        kept == SelectSeq([k \in 1..n |-> k], is_first)
    IN  [k \in 1..Len(kept) |-> messages_found[last_of(kept[k])]]

\* the elements of _list at the indices given, in the order of the list
at_indices(_list, keep) ==
    LET kept == SelectSeq([k \in 1..Len(_list) |-> k], LAMBDA k : k \in keep)
    IN  [k \in 1..Len(kept) |-> _list[kept[k]]]

\* lines 262-279: the access points (i, j) of message i, j = NULL for None
access_points_of(i, js) ==
    IF js # {} THEN {<<i, j>> : j \in js} ELSE {<<i, NULL>>}

\* the fields of the two schemas that hold a datetime, and all their fields,
\* as paths
DatetimePaths ==
    {<<"timestamps", "client_sent">>, <<"timestamps", "server_received">>,
     <<"broadcasted", "message_sent_at">>, <<"broadcasted", "message_received_at">>,
     <<"created_at">>}

SchemaPaths ==
    DatetimePaths
    \cup {<<"header">>, <<"client_name">>, <<"timestamps">>, <<"message">>, <<"client_address">>,
          <<"broadcasted">>, <<"message_id">>, <<"broadcasted", "client_name">>,
          <<"response_type">>, <<"info">>, <<"server_addr">>}

\* __is_in_schema(fields, check_if_modifiable=False, value) as called at
\* lines 236-241 raises: the path is not in the schema (KeyError), or the
\* value is not None and no instance of the field's type (ValueError)
not_in_schema(c) ==
    \/ c.key \notin SchemaPaths
    \/ c.key \in DatetimePaths /\ c.val = NotADatetime

\* an exception leaves get_messages: a condition that __is_in_schema
\* rejects or that is deeper than two levels, both looked at once per
\* message of the store, or an ordering comparison with None
get_raises(waiting_messages, _cond) ==
    \/ \E k \in 1..Len(_cond) : Len(waiting_messages) > 0 /\ not_in_schema(_cond[k])
    \/ \E k \in 1..Len(_cond) : Len(waiting_messages) > 0 /\ Len(_cond[k].key) > 2
    \/ \E i \in 1..Len(waiting_messages), k \in 1..Len(_cond) :
          /\ Len(_cond[k].key) <= 2
          /\ ~not_in_schema(_cond[k])
          /\ \E v \in compared_values(waiting_messages[i], _cond[k]) :
                raises_type_error(_cond[k].func, v, _cond[k].val)

\* lines 276-287: what get_messages returns for the messages found
found_messages(waiting_messages, _cond, found) ==
    [indices |-> UNION {access_points_of(i, sub_indices(waiting_messages[i], _cond)) : i \in found},
     messages |-> unique_by_id(at_indices(waiting_messages, found)),
     err |-> FALSE]

\* get_messages(_cond), lines 211-287. indices: the access points; err: an
\* exception left the method
get_messages(waiting_messages, _cond) ==
    IF get_raises(waiting_messages, _cond)
    THEN [indices |-> {}, messages |-> <<>>, err |-> TRUE]
    ELSE found_messages(waiting_messages, _cond,
             {i \in 1..Len(waiting_messages) : message_found(waiting_messages[i], _cond)})

\* get_messages() without conditions, lines 201-205
get_messages_all(waiting_messages) ==
    [indices |-> {<<i, NULL>> : i \in 1..Len(waiting_messages)},
     messages |-> waiting_messages,
     err |-> FALSE]

\* __is_in_schema(fields, check_if_modifiable=True): the path names a field
\* tagged MODIFIABLE at every level
is_modifiable(fields) == fields \in ModifiableFields

\* __is_in_schema, lines 121-126: a value that is not None is an instance
\* of the type of the field, which is datetime for the two fields of a
\* recipient entry that can be assigned
value_fits(fields, value) ==
    value = NULL \/ (Len(fields) = 2 /\ value \in Nat)

\* the three assignments of lines 330-345 at one access point
write_field(message, at, field_name, value, js) ==
    IF at = ""
    THEN [message EXCEPT ![field_name] = value]
    ELSE [message EXCEPT ![at] = [j \in 1..Len(@) |->
              IF j \in js THEN [@[j] EXCEPT ![field_name] = value] ELSE @[j]]]

\* lines 330-345 over every access point. An access point without a
\* sub-index into a list field makes line 340 index the list by a string,
\* which raises TypeError; the access points of one call either all have a
\* sub-index or none has, so nothing is written before the exception.
write_points(waiting_messages, fields, at, value, got) ==
    IF ~is_modifiable(fields) \/ ~value_fits(fields, value) \/ got.err
       \/ \E ap \in got.indices : at \in ListFields /\ ap[2] = NULL
    THEN [waiting_messages |-> waiting_messages, indices |-> {}, err |-> TRUE]
    ELSE [waiting_messages |->
             [i \in 1..Len(waiting_messages) |->
                 IF \E ap \in got.indices : ap[1] = i
                 THEN write_field(waiting_messages[i], at, fields[Len(fields)], value,
                                  {ap[2] : ap \in {p \in got.indices : p[1] = i}})
                 ELSE waiting_messages[i]],
          indices |-> got.indices,
          err |-> FALSE]

\* access points looked up again for every assignment
points_found_again(waiting_messages, _cond, indices) ==
    IF _cond # <<>> THEN get_messages(waiting_messages, _cond)
    ELSE get_messages_all(waiting_messages)

\* lines 320-327: the access points handed in, else those of get_messages
points_to_update(waiting_messages, _cond, indices) ==
    IF indices # {} THEN [indices |-> indices, err |-> FALSE]
    ELSE IF _cond # <<>> THEN get_messages(waiting_messages, _cond)
    ELSE get_messages_all(waiting_messages)

\* update_messages(field_name, value, at, _cond, indices, return_indices=True).
\* fields is ([at] if at else []) + [field_name].
update_messages(waiting_messages, fields, value, _cond, indices) ==
    CHOOSE r \in {write_points(waiting_messages, fields,
                                 IF Len(fields) = 2 THEN fields[1] ELSE "", value, got) :
                      got \in {points_to_update(waiting_messages, _cond, indices)}} : TRUE

\* __str_to_cond_dict: zip(query_items, values) into a dict keyed by field
\* path; a repeated key keeps its first place and takes its last value
str_to_cond_dict(query_items, values) ==
    LET n == Min(Len(query_items), Len(values))
        is_first(k) == \A h \in 1..(k - 1) : query_items[h].key # query_items[k].key
        last_of(k) == CHOOSE h \in k..n :
                      /\ query_items[h].key = query_items[k].key
                      /\ \A g \in (h + 1)..n : query_items[g].key # query_items[k].key
        kept == SelectSeq([k \in 1..n |-> k], is_first)
    IN  [k \in 1..Len(kept) |->
            [key |-> query_items[kept[k]].key,
             func |-> query_items[last_of(kept[k])].func,
             val |-> values[last_of(kept[k])]]]

\* lines 454-455: the parent and child field names of an assignment
assignment_fields(field) ==
    IF Len(field) = 2 THEN field ELSE <<field[1]>>

RECURSIVE update_multiple_from(_, _, _, _, _, _)
RECURSIVE update_multiple_next(_, _, _, _, _)
\* the loop of lines 450-464, from assignment k on
update_multiple_from(waiting_messages, query_items, values, _cond, indices, k) ==
    IF k > Min(Len(query_items), Len(values))
    THEN [waiting_messages |-> waiting_messages, err |-> FALSE]
    ELSE CHOOSE next \in {update_multiple_next(r, query_items, values, _cond, k) :
                              r \in {update_messages(waiting_messages,
                                         assignment_fields(query_items[k]),
                                         values[k], _cond, indices)}} : TRUE

\* an exception of update_messages leaves the loop; else the loop goes on
\* with the access points returned
update_multiple_next(r, query_items, values, _cond, k) ==
    IF r.err THEN [waiting_messages |-> r.waiting_messages, err |-> TRUE]
    ELSE update_multiple_from(r.waiting_messages, query_items, values, _cond, r.indices, k + 1)

\* __update_multiple: one update_messages per assignment, each handing its
\* access points to the next
update_multiple(waiting_messages, query_items, values, _cond) ==
    update_multiple_from(waiting_messages, query_items, values, _cond, {}, 1)

remove_at(_list, j) == SubSeq(_list, 1, j - 1) \o SubSeq(_list, j + 1, Len(_list))

kept_indices(_list, js) == SelectSeq([k \in 1..Len(_list) |-> k], LAMBDA k : k \notin js)

\* lines 596-599: del waiting_messages[i], highest index first
delete_messages(waiting_messages, access_points) ==
    LET kept == kept_indices(waiting_messages, {ap[1] : ap \in access_points})
    IN  [k \in 1..Len(kept) |-> waiting_messages[kept[k]]]

\* lines 623-624: del waiting_messages[i][foi][j] for the access points in
\* the order given; a missing or out-of-range sub-index raises
RECURSIVE delete_elements(_, _, _, _)
delete_elements(waiting_messages, foi, points, k) ==
    IF k > Len(points)
    THEN [waiting_messages |-> waiting_messages, result |-> <<>>, err |-> FALSE]
    ELSE LET i == points[k][1]
             j == points[k][2]
         IN  IF j = NULL \/ j > Len(waiting_messages[i][foi])
             THEN [waiting_messages |-> waiting_messages, result |-> <<>>, err |-> TRUE]
             ELSE delete_elements(
                      [waiting_messages EXCEPT ![i][foi] = remove_at(@, j)],
                      foi, points, k + 1)

\* a clear() that removes nothing
clear_nothing(waiting_messages, foi, access_points) == waiting_messages

\* lines 630-633: waiting_messages[i][foi].clear()
clear_lists(waiting_messages, foi, access_points) ==
    [i \in 1..Len(waiting_messages) |->
        IF \E ap \in access_points : ap[1] = i
        THEN [waiting_messages[i] EXCEPT ![foi] = <<>>]
        ELSE waiting_messages[i]]

Reverse(_list) == [k \in 1..Len(_list) |-> _list[Len(_list) + 1 - k]]

\* the orders in which list(set(indices)) may list a set of access points
RECURSIVE Orders(_)
Orders(S) ==
    IF S = {} THEN {<<>>}
    ELSE UNION {{<<x>> \o rest : rest \in Orders(S \ {x})} : x \in S}

\* line 618: the conditions name sub-fields of exactly one field
one_embedded_field(_cond) ==
    Cardinality({_cond[k].key[1] : k \in {h \in 1..Len(_cond) : Len(_cond[h].key) > 1}}) = 1

\* query, lines 566-572 and 587-633: the branches that start from
\* get_messages(_cond)
query_where(waiting_messages, q, _cond, got, order) ==
    IF got.err THEN [waiting_messages |-> waiting_messages, result |-> <<>>, err |-> TRUE]
    ELSE CASE q.verb = "GET WHERE" ->
                [waiting_messages |-> waiting_messages, result |-> got.messages, err |-> FALSE]
           [] q.verb = "DELETE WHERE" ->
                [waiting_messages |-> delete_messages(waiting_messages, got.indices),
                 result |-> <<>>, err |-> FALSE]
           [] q.verb = "DELETE IN" /\ got.indices = {} ->
                [waiting_messages |-> waiting_messages, result |-> <<>>, err |-> FALSE]
           [] q.verb = "DELETE IN" /\ got.indices # {} /\ one_embedded_field(_cond) ->
                delete_elements(waiting_messages, q.foi, Reverse(order), 1)
           [] q.verb = "DELETE IN" /\ got.indices # {} /\ ~one_embedded_field(_cond) ->
                [waiting_messages |-> clear_lists(waiting_messages, q.foi, got.indices),
                 result |-> <<>>, err |-> FALSE]

\* query, lines 574-585: UPDATE ALL and UPDATE ... WHERE return None
query_update(r) ==
    [waiting_messages |-> r.waiting_messages, result |-> <<>>, err |-> r.err]

\* query, lines 549-633, with the WHERE values already paired with their
\* conditions
query_cond(waiting_messages, q, update_val, _cond, order) ==
    CASE q.verb = "GET ALL" ->
            [waiting_messages |-> waiting_messages, result |-> waiting_messages, err |-> FALSE]
      [] q.verb = "DELETE ALL" ->
            [waiting_messages |-> <<>>, result |-> <<>>, err |-> FALSE]
      [] q.verb \in {"UPDATE ALL", "UPDATE WHERE"} ->
            query_update(update_multiple(waiting_messages, q.items, update_val,
                             IF q.verb = "UPDATE ALL" THEN <<>> ELSE _cond))
      [] OTHER ->
            CHOOSE r \in {query_where(waiting_messages, q, _cond, got, order) :
                              got \in {get_messages(waiting_messages, _cond)}} : TRUE

\* the handler after the call, what the call returns (None is <<>>), and
\* whether an exception left it
query_done(mh, r) ==
    [mh |-> [mh EXCEPT !.waiting_messages = r.waiting_messages],
     result |-> r.result, err |-> r.err]

\* query(_query, update_val, where_val) on a query that passed the checks of
\* lines 526-547, split into its verb, the field of IN(...), its assignment
\* paths and its condition items. order: list(set(indices)) of the DELETE
\* IN branch. Each call is evaluated once and its value handed on.
query(mh, q, update_val, where_val, order) ==
    CHOOSE done \in {query_done(mh, r) :
                         r \in {query_cond(mh.waiting_messages, q, update_val, _cond, order) :
                                    _cond \in {str_to_cond_dict(q.conds, where_val)}}} : TRUE

\* ------------------------------------------------------------------------
\* message_handler.py: query, the checks on the query string (lines 526-547)
\* A string is the sequence of its characters.
\* ------------------------------------------------------------------------

\* the character class of line 527: [A-Za-z,._\-<>=!(){}\s], over the
\* letters and the whitespace the queries below are written with
UpperCase == {"A", "D", "E", "G", "L", "N", "O", "R", "T", "X"}

LowerCase == {"x"}

allowed_characters ==
    UpperCase \cup LowerCase \cup {",", ".", "_", "-", "<", ">", "=", "!", "(", ")", "{", "}", " "}

\* allowed_characters.match(_query): the end of the longest prefix made of
\* allowed characters, counted from i; the pattern wants one character at
\* least, so that match returns None when the end is 0
RECURSIVE match_end(_, _)
match_end(_query, i) ==
    IF i < Len(_query) /\ _query[i + 1] \in allowed_characters
    THEN match_end(_query, i + 1)
    ELSE i

\* str.count(sub): occurrences that do not overlap, from the left
RECURSIVE str_count(_, _, _)
str_count(s, sub, i) ==
    IF i + Len(sub) - 1 > Len(s) THEN 0
    ELSE IF SubSeq(s, i, i + Len(sub) - 1) = sub
         THEN 1 + str_count(s, sub, i + Len(sub))
         ELSE str_count(s, sub, i + 1)

\* sub in s
str_in(sub, s) == \E i \in 1..(Len(s) - Len(sub) + 1) : SubSeq(s, i, i + Len(sub) - 1) = sub

\* str.replace(old, new)
RECURSIVE str_replace(_, _, _, _)
str_replace(s, old, new, i) ==
    IF i > Len(s) THEN <<>>
    ELSE IF i + Len(old) - 1 <= Len(s) /\ SubSeq(s, i, i + Len(old) - 1) = old
         THEN new \o str_replace(s, old, new, i + Len(old))
         ELSE <<s[i]>> \o str_replace(s, old, new, i + 1)

\* str.split(' '): word is the word being read
RECURSIVE str_split(_, _, _)
str_split(s, i, word) ==
    IF i > Len(s) THEN <<word>>
    ELSE IF s[i] = " "
         THEN <<word>> \o str_split(s, i + 1, <<>>)
         ELSE str_split(s, i + 1, Append(word, s[i]))

\* str.isupper(): a cased character at least, and no lowercase one
isupper(word) ==
    /\ \E k \in 1..Len(word) : word[k] \in UpperCase
    /\ \A k \in 1..Len(word) : word[k] \notin LowerCase

\* line 543
allowed_methods ==
    {<<"G", "E", "T">>, <<"U", "P", "D", "A", "T", "E">>, <<"D", "E", "L", "E", "T", "E">>,
     <<"W", "H", "E", "R", "E">>, <<"A", "L", "L">>, <<"I", "N">>}

\* line 540: _query.replace(' AND ', ', ')
and_replaced(_query) == str_replace(_query, <<" ", "A", "N", "D", " ">>, <<",", " ">>, 1)

\* lines 545-547: a capitalized word that is not an allowed method
not_allowed_method(_query) ==
    LET words == str_split(and_replaced(_query), 1, <<>>)
    IN  \E k \in 1..Len(words) : isupper(words[k]) /\ words[k] \notin allowed_methods

\* lines 526-547: the exception the checks leave query with, "" when the
\* query passes them. match(...).group() of line 529 is an attribute of
\* None when no prefix matches.
query_checks(_query) ==
    IF match_end(_query, 0) = 0 THEN "AttributeError"
    ELSE IF match_end(_query, 0) # Len(_query) THEN "ValueError"
    ELSE IF ~(/\ str_count(_query, <<",">>, 1) = str_count(_query, <<",", " ">>, 1)
              /\ str_count(_query, <<" ", ",">>, 1) = 0) THEN "ValueError"
    ELSE IF not_allowed_method(_query) THEN "ValueError"
    ELSE ""

\* query(_query) on a query written without WHERE, UPDATE and IN: of lines
\* 549-638 it reaches GET ALL, DELETE ALL and the raise of line 638
query_text(mh, _query) ==
    IF query_checks(_query) # ""
    THEN [mh |-> mh, result |-> <<>>, raised |-> query_checks(_query)]
    ELSE IF str_in(<<"G", "E", "T", " ", "A", "L", "L">>, and_replaced(_query))
    THEN [mh |-> mh, result |-> mh.waiting_messages, raised |-> ""]
    ELSE IF str_in(<<"D", "E", "L", "E", "T", "E", " ", "A", "L", "L">>, and_replaced(_query))
    THEN [mh |-> [mh EXCEPT !.waiting_messages = <<>>], result |-> <<>>, raised |-> ""]
    ELSE [mh |-> mh, result |-> <<>>, raised |-> "Exception"]

\* ------------------------------------------------------------------------
\* server.py: Server
\* ------------------------------------------------------------------------

VARIABLES
    \* Server.server_messages, Server.client_messages: the two MessageHandlers
    server_messages, client_messages,
    \* Server.sockets_list without its first element, the server socket
    sockets_list,
    \* Server.clients_list: [client_name, addr] per approved username
    clients_list,
    \* per connection, the peer's side: "new" (not yet accepted), "open",
    \* "closed"
    conn,
    \* per dispatcher thread, where it is in message_dispatcher
    disp,
    \* history: per (handler, message id, recipient), the number of socket
    \* sends and of message_sent_at stamps, saturating at MaxCount
    log,
    \* history: the last call made directly on the store
    last

vars == <<server_messages, client_messages, sockets_list, clients_list, conn, disp, log, last>>

\* threads that may run message_dispatcher
Dispatchers == {1, 2}

\* datetime.now() as the default of created_at: notices are created at
\* distinct instants, numbered in the order of creation (the server never
\* deletes a notice)
created_now(sm) == 1 + Len(sm.waiting_messages)

Range(_list) == {_list[k] : k \in 1..Len(_list)}

\* next(k for k, x in enumerate(_list) if x == value), None when there is
\* none
first_index(_list, value) ==
    IF \E k \in 1..Len(_list) : _list[k] = value
    THEN CHOOSE k \in 1..Len(_list) : _list[k] = value /\ \A h \in 1..(k - 1) : _list[h] # value
    ELSE NULL

\* [user["addr"] for user in clients_list] and the same for client_name
client_addrs == [k \in 1..Len(clients_list) |-> clients_list[k].addr]

client_names == [k \in 1..Len(clients_list) |-> clients_list[k].client_name]

\* _list.remove(x): the first occurrence
list_remove(_list, k) == SubSeq(_list, 1, k - 1) \o SubSeq(_list, k + 1, Len(_list))

\* lines 426-432: the username registered for the connection's address
username_of(c) ==
    LET k == first_index(client_addrs, c)
    IN  IF k = NULL THEN "" ELSE clients_list[k].client_name

\* a notice appended to server_messages; created_at defaults to now()
append_notice(sm, response_type, info, recipients) ==
    append_message(sm,
        ServerClientCommunicationSchema(response_type, info, created_now(sm),
            [k \in 1..Len(recipients) |-> UserStatus(recipients[k])]))

\* __get_client_id: the zero-padded address as a string
get_client_id(c) == PickledAddr[c]

\* select() reports the connection: the server socket for a connection
\* not yet accepted, else a socket of sockets_list. Connections are numbered
\* in the order the server accepts them.
notified(c) ==
    \/ conn[c] = "new" /\ \A b \in Conns : b < c => conn[b] # "new"
    \/ conn[c] = "open" /\ c \in Range(sockets_list)

Init ==
    /\ server_messages = MessageHandler
    /\ client_messages = MessageHandler
    /\ sockets_list = <<>>
    /\ clients_list = <<>>
    /\ conn = [c \in Conns |-> "new"]
    /\ disp = [d \in Dispatchers |-> [pc |-> "scan", handler |-> "server", msgs |-> <<>>, mi |-> 1, ci |-> 1]]
    /\ log = <<>>
    /\ last = [op |-> "none", q |-> [verb |-> "", foi |-> "", items |-> <<>>, conds |-> <<>>],
               update_val |-> <<>>, where |-> [conds |-> <<>>, vals |-> <<>>],
               result |-> <<>>, err |-> FALSE, changed |-> FALSE]

\* lines 134-139 with the mutation that admits every passcode
admit_any(_sockets_list, c, correct) == Append(_sockets_list, c)

\* lines 134-139: sockets_list after the passcode was compared
admit(_sockets_list, c, correct) ==
    IF correct THEN Append(_sockets_list, c) ELSE _sockets_list

\* handle_clients, PASSCODE_GIVEN (lines 129-163)
PasscodeGiven(c, correct) ==
    /\ notified(c)
    /\ conn' = [conn EXCEPT ![c] = "open"]
    /\ sockets_list' = admit(sockets_list, c, correct)
    /\ server_messages' = append_notice(server_messages,
           IF correct THEN "PASSCODE_CORRECT" ELSE "PASSCODE_INCORRECT",
           "", <<pickle_dumps(c)>>)
    /\ UNCHANGED <<client_messages, clients_list, disp, log, last>>

\* the usernames accepted so far, in or out of clients_list
accepted_names ==
    UNION {{m.broadcasted[j].client_name : j \in 1..Len(m.broadcasted)} :
           m \in {n \in Range(server_messages.waiting_messages) : n.response_type = "USERNAME_ACCEPTED"}}

\* the notice is the USERNAME_ACCEPTED of lines 192-196 for this username
is_accepted(notice, client_name) ==
    /\ notice.response_type = "USERNAME_ACCEPTED"
    /\ \E j \in 1..Len(notice.broadcasted) : notice.broadcasted[j].client_name = client_name

\* usernames are lettered in the order of their first use
NameOrder == <<"a", "b", "c">>

fresh_in_order(client_message) ==
    \A k \in 1..Len(NameOrder) :
        NameOrder[k] = client_message =>
            \A h \in 1..(k - 1) : NameOrder[h] \in accepted_names

\* line 201: the client_name of every entry of _clients_list, with the
\* mutation that keeps the entry just appended
names_with_last(_clients_list) ==
    [k \in 1..Len(_clients_list) |-> _clients_list[k].client_name]

\* line 201: [{"client_name": c["client_name"]} for c in clients_list[:-1]]
names_but_last(_clients_list) ==
    [k \in 1..(Len(_clients_list) - 1) |-> _clients_list[k].client_name]

\* lines 170-172 with the mutation that finds no username registered
username_never_exists(client_message) == FALSE

\* lines 170-172: the loop breaks on an entry with this username
username_exists(client_message) ==
    \E k \in 1..Len(clients_list) : clients_list[k].client_name = client_message

\* handle_clients, USERNAME_GIVEN (lines 165-206)
UsernameGiven(c, client_message) ==
    /\ notified(c)
    /\ conn' = [conn EXCEPT ![c] = "open"]
    /\ IF username_exists(client_message)
       THEN /\ clients_list' = clients_list
            /\ server_messages' = append_notice(server_messages,
                   "USERNAME_ALREADY_EXISTS", "", <<pickle_dumps(c)>>)
       ELSE LET accepted == append_notice(server_messages,
                                "USERNAME_ACCEPTED", "", <<client_message>>)
            IN  /\ clients_list' = Append(clients_list, [client_name |-> client_message, addr |-> c])
                /\ server_messages' =
                       IF Len(clients_list) + 1 > 1
                       THEN append_notice(accepted, "CLIENT_CONNECTED",
                                get_client_id(c) \o client_message,
                                names_but_last(Append(clients_list,
                                    [client_name |-> client_message, addr |-> c])))
                       ELSE accepted
    /\ UNCHANGED <<client_messages, sockets_list, disp, log, last>>

\* handle_clients, CLIENT_DISCONNECTED (lines 208-235): receive_message
\* read an empty header or failed
ClientDisconnected(c) ==
    /\ \/ notified(c)
       \/ conn[c] = "closed" /\ c \in Range(sockets_list)
    /\ conn' = [conn EXCEPT ![c] = "closed"]
    /\ LET s == first_index(sockets_list, c)
           u == first_index(client_addrs, c)
           remaining == IF u = NULL THEN clients_list ELSE list_remove(clients_list, u)
       IN  /\ sockets_list' = IF s = NULL THEN sockets_list ELSE list_remove(sockets_list, s)
           /\ clients_list' = remaining
           /\ server_messages' =
                  IF u = NULL THEN server_messages
                  ELSE append_notice(server_messages, "CLIENT_DISCONNECTED",
                           get_client_id(c),
                           [k \in 1..Len(remaining) |-> remaining[k].client_name])
    /\ UNCHANGED <<client_messages, disp, log, last>>

\* lines 458-477 with the mutation that lists the sender among the
\* recipients
RegularTextMessageToAll(c, client_sent) ==
    /\ notified(c)
    /\ username_of(c) # ""
    /\ conn' = [conn EXCEPT ![c] = "open"]
    /\ client_messages' = append_message(client_messages,
           MessageSchema(<<>>, username_of(c), client_sent, now, c,
               [k \in 1..Len(clients_list) |-> UserStatus(clients_list[k].client_name)]))
    /\ UNCHANGED <<server_messages, sockets_list, clients_list, disp, log, last>>

\* handle_incoming_messages, lines 449 and 510-514: a message that is not
\* for handle_clients, from a connection without a username, is dropped
DiscardedMessage(c) ==
    /\ notified(c)
    /\ username_of(c) = ""
    /\ conn' = [conn EXCEPT ![c] = "open"]
    /\ UNCHANGED <<server_messages, client_messages, sockets_list, clients_list, disp, log, last>>

\* handle_incoming_messages, REGULAR_TEXT_MESSAGE (lines 458-477). A peer
\* does not originate two messages with the same timestamp (schema.py,
\* lines 96-97).
RegularTextMessage(c, client_sent) ==
    /\ notified(c)
    /\ username_of(c) # ""
    /\ \A m \in Range(client_messages.waiting_messages) :
          <<m.timestamps.client_sent, m.client_address>> # <<client_sent, c>>
    /\ conn' = [conn EXCEPT ![c] = "open"]
    /\ LET others == SelectSeq(clients_list, LAMBDA user : user.client_name # username_of(c))
       IN  client_messages' = append_message(client_messages,
               MessageSchema(<<>>, username_of(c), client_sent,
                   now, c,
                   [k \in 1..Len(others) |-> UserStatus(others[k].client_name)]))
    /\ UNCHANGED <<server_messages, sockets_list, clients_list, disp, log, last>>

\* the query of lines 488-492 with the mutation that names every recipient
\* but the one that acknowledges
AckQueryOthers ==
    [verb |-> "UPDATE WHERE", foi |-> "",
     items |-> << <<"broadcasted", "message_received_at">> >>,
     conds |-> <<[key |-> <<"message_id">>, func |-> "=="],
                 [key |-> <<"broadcasted", "client_name">>, func |-> "!="]>>]

\* the query of lines 488-492
AckQuery ==
    [verb |-> "UPDATE WHERE", foi |-> "",
     items |-> << <<"broadcasted", "message_received_at">> >>,
     conds |-> <<[key |-> <<"message_id">>, func |-> "=="],
                 [key |-> <<"broadcasted", "client_name">>, func |-> "=="]>>]

\* handle_incoming_messages, MESSAGE_RECEIVED_RESPONSE (lines 481-494): the
\* payload names the message, the header's timestamp is the time of receipt
MessageReceivedResponse(c, client_sent, message) ==
    /\ notified(c)
    /\ username_of(c) # ""
    /\ conn' = [conn EXCEPT ![c] = "open"]
    /\ client_messages' = query(client_messages, AckQuery, <<client_sent>>,
                                <<message, username_of(c)>>, <<>>).mh
    /\ UNCHANGED <<server_messages, sockets_list, clients_list, disp, log, last>>

\* the handler a dispatcher is working on
handler_of(name, sm, cm) == IF name = "server" THEN sm ELSE cm

\* the query of line 522
ScanQuery ==
    [verb |-> "GET WHERE", foi |-> "", items |-> <<>>,
     conds |-> <<[key |-> <<"broadcasted", "message_sent_at">>, func |-> "=="]>>]

\* the query of lines 585-589
StampQuery ==
    [verb |-> "UPDATE WHERE", foi |-> "",
     items |-> << <<"broadcasted", "message_sent_at">> >>,
     conds |-> <<[key |-> <<"message_id">>, func |-> "=="],
                 [key |-> <<"broadcasted", "message_sent_at">>, func |-> "=="]>>]

\* lines 535-557: the socket of a recipient entry, None when the recipient
\* is not registered or has no socket in sockets_list
recipient_client_socket(client_name) ==
    IF is_bytes(client_name)
    THEN LET s == first_index(sockets_list, pickle_loads(client_name))
         IN  IF s = NULL THEN NULL ELSE sockets_list[s]
    ELSE LET u == first_index(client_names, client_name)
         IN  IF u = NULL THEN NULL
             ELSE LET s == first_index(sockets_list, clients_list[u].addr)
                  IN  IF s = NULL THEN NULL ELSE sockets_list[s]

\* the two nested for loops of __send_messages and the while loop of
\* message_dispatcher: the loops resume at entry ci of message mi, or at the
\* first entry after it; past the last entry of the last message the
\* dispatcher turns to the other handler
resume(handler, msgs, mi, ci) ==
    LET ahead == {p \in UNION {{<<m, k>> : k \in 1..Len(msgs[m].broadcasted)} : m \in 1..Len(msgs)} :
                     p[1] > mi \/ (p[1] = mi /\ p[2] >= ci)}
        nxt == CHOOSE p \in ahead : \A o \in ahead : p[1] < o[1] \/ (p[1] = o[1] /\ p[2] <= o[2])
    IN  IF ahead = {}
        THEN [pc |-> "scan", handler |-> IF handler = "server" THEN "client" ELSE "server",
              msgs |-> <<>>, mi |-> 1, ci |-> 1]
        ELSE [pc |-> "send", handler |-> handler, msgs |-> msgs, mi |-> nxt[1], ci |-> nxt[2]]

\* one more socket send recorded for (handler, message id, recipient)
sent(key) ==
    [k \in DOMAIN log \cup {key} |->
        IF k = key
        THEN IF k \in DOMAIN log THEN Min(log[k] + 1, MaxCount) ELSE 1
        ELSE log[k]]

sends(key) == IF key \in DOMAIN log THEN log[key] ELSE 0

\* what the loops read of the messages found: the id and the recipients
snapshot(messages) ==
    [k \in 1..Len(messages) |->
        [message_id |-> messages[k].message_id,
         broadcasted |-> [j \in 1..Len(messages[k].broadcasted) |->
                             messages[k].broadcasted[j].client_name]]]

\* __send_messages, line 522: the GET of the messages with an entry not sent
DispatcherScan(d) ==
    /\ disp[d].pc = "scan"
    /\ \E found \in {query(handler_of(disp[d].handler, server_messages, client_messages),
                            ScanQuery, <<>>, <<NULL>>, <<>>).result} :
          \E msgs \in {snapshot(found)} :
              disp' = [disp EXCEPT ![d] = resume(disp[d].handler, msgs, 1, 1)]
    /\ UNCHANGED <<server_messages, client_messages, sockets_list, clients_list, conn, log, last>>

\* __send_messages, lines 529-582: one recipient entry of one message; the
\* message goes out when the recipient's socket is found
DispatcherSend(d) ==
    /\ disp[d].pc = "send"
    /\ LET msg == disp[d].msgs[disp[d].mi]
           client_name == msg.broadcasted[disp[d].ci]
       IN  IF recipient_client_socket(client_name) # NULL
           THEN /\ log' = sent(<<disp[d].handler, msg.message_id, client_name>>)
                /\ disp' = [disp EXCEPT ![d].pc = "stamp"]
           ELSE /\ log' = log
                /\ disp' = [disp EXCEPT ![d] =
                       resume(disp[d].handler, disp[d].msgs, disp[d].mi, disp[d].ci + 1)]
    /\ UNCHANGED <<server_messages, client_messages, sockets_list, clients_list, conn, last>>

\* the handler named becomes mh
handler_becomes(name, mh) ==
    IF name = "server"
    THEN server_messages' = mh /\ client_messages' = client_messages
    ELSE client_messages' = mh /\ server_messages' = server_messages

\* __send_messages, lines 584-589: the UPDATE that follows the send
DispatcherStamp(d) ==
    /\ disp[d].pc = "stamp"
    /\ \E mh \in {query(handler_of(disp[d].handler, server_messages, client_messages), StampQuery,
                         <<now>>, <<disp[d].msgs[disp[d].mi].message_id, NULL>>, <<>>).mh} :
          handler_becomes(disp[d].handler, mh)
    /\ disp' = [disp EXCEPT ![d] =
           resume(disp[d].handler, disp[d].msgs, disp[d].mi, disp[d].ci + 1)]
    /\ UNCHANGED <<sockets_list, clients_list, conn, log, last>>

\* the stores stay within the bounds given
Bounded(notices, msgs) ==
    /\ Len(server_messages'.waiting_messages) <= notices
    /\ Len(client_messages'.waiting_messages) <= msgs

\* the ids of the messages in client_messages
message_ids == {m.message_id : m \in Range(client_messages.waiting_messages)}

\* What the peer of connection c does when it follows the protocol: it
\* opens with the right passcode, then gives one username nobody holds.
Joins(c, notices, msgs) ==
    \/ /\ conn[c] = "new"
       /\ PasscodeGiven(c, TRUE)
       /\ Bounded(notices, msgs)
    \/ /\ conn[c] = "open" /\ username_of(c) = ""
       /\ \E client_message \in Names \ accepted_names :
              fresh_in_order(client_message) /\ UsernameGiven(c, client_message)
       /\ Bounded(notices, msgs)

\* Then it sends messages, and receipts for messages the server holds.
Talks(c, notices, msgs) ==
    \/ /\ \E client_sent \in 1..MaxSent : RegularTextMessage(c, client_sent)
       /\ Bounded(notices, msgs)
    \/ \E client_sent \in 1..MaxSent, message \in message_ids :
          MessageReceivedResponse(c, client_sent, message)

\* The peer closes the connection.
Leaves(c, notices, msgs) == ClientDisconnected(c) /\ Bounded(notices, msgs)

\* message_dispatcher run by thread d
Dispatcher(d) == DispatcherScan(d) \/ DispatcherSend(d) \/ DispatcherStamp(d)

\* The server as started by __main__: the inbound loop and one dispatcher
\* thread. A peer may close its connection at any time.
Next ==
    \/ \E c \in Conns : Joins(c, MaxNotices, MaxMsgs)
    \/ \E c \in Conns : Talks(c, MaxNotices, MaxMsgs)
    \/ \E c \in Conns : Leaves(c, MaxNotices, MaxMsgs)
    \/ Dispatcher(1)

Spec == Init /\ [][Next]_vars

\* The same server while no peer closes its connection.
NextStay ==
    \/ \E c \in Conns : Joins(c, MaxStayNotices, MaxMsgs)
    \/ \E c \in Conns : Talks(c, MaxStayNotices, MaxMsgs)
    \/ Dispatcher(1)

SpecStay == Init /\ [][NextStay]_vars

\* The inbound loop with peers that join and stay, and one dispatcher
\* thread: the notices of the handshake are what the dispatcher sends.
NextJoin ==
    \/ \E c \in Conns : Joins(c, MaxStayNotices, 0)
    \/ Dispatcher(1)

SpecJoin == Init /\ [][NextJoin]_vars

\* message_dispatcher is a thread of its own that loops for ever: its next
\* step is taken eventually
FairSpec == SpecJoin /\ WF_vars(Dispatcher(1))

\* Two threads running message_dispatcher on the same server.
NextTwo ==
    \/ \E c \in Conns : Joins(c, MaxTwoNotices, MaxMsgs)
    \/ \E d \in Dispatchers : Dispatcher(d)

SpecTwo == Init /\ [][NextTwo]_vars

\* append_message as far as line 71, called for a REGULAR_TEXT_MESSAGE (lines
\* 458-477): the document is at the tail of the list and the inbound loop
\* has yet to sort. No lock is held: the flags of lines 53-54 are never
\* read.
AppendTail(c, client_sent) ==
    /\ notified(c)
    /\ username_of(c) # ""
    /\ \A m \in Range(client_messages.waiting_messages) :
          <<m.timestamps.client_sent, m.client_address>> # <<client_sent, c>>
    /\ conn' = [conn EXCEPT ![c] = "sorting"]
    /\ LET others == SelectSeq(clients_list, LAMBDA user : user.client_name # username_of(c))
       IN  client_messages' = [client_messages EXCEPT !.waiting_messages =
               Append(@, MessageSchema(<<>>, username_of(c), client_sent, now, c,
                             [k \in 1..Len(others) |-> UserStatus(others[k].client_name)]))]
    /\ UNCHANGED <<server_messages, sockets_list, clients_list, disp, log, last>>

\* append_message, lines 73-80: the rest of the call, which sorts the list
\* as it is now
AppendSort(c) ==
    /\ conn[c] = "sorting"
    /\ conn' = [conn EXCEPT ![c] = "open"]
    /\ LET wm == client_messages.waiting_messages
       IN  client_messages' =
               append_message([client_messages EXCEPT !.waiting_messages = SubSeq(wm, 1, Len(wm) - 1)],
                              wm[Len(wm)])
    /\ UNCHANGED <<server_messages, sockets_list, clients_list, disp, log, last>>

\* update_messages called for the stamp of lines 584-589, as far as line
\* 324: the access points of get_messages, held by the dispatcher thread
StampFind(d) ==
    /\ disp[d].pc = "stamp"
    /\ disp' = [disp EXCEPT ![d].pc = "write"]
    /\ \E got \in {get_messages(handler_of(disp[d].handler, server_messages, client_messages).waiting_messages,
                                 str_to_cond_dict(StampQuery.conds,
                                     <<disp[d].msgs[disp[d].mi].message_id, NULL>>))} :
          last' = [last EXCEPT !.op = "find", !.result = got.indices, !.err = got.err]
    /\ UNCHANGED <<server_messages, client_messages, sockets_list, clients_list, conn, log>>

\* update_messages, lines 330-345: the writes at the access points held, by
\* index into the list as it is now
StampWrite(d) ==
    /\ disp[d].pc = "write"
    /\ \E mh \in {handler_of(disp[d].handler, server_messages, client_messages)} :
          handler_becomes(disp[d].handler,
              [mh EXCEPT !.waiting_messages =
                  write_points(@, StampQuery.items[1], "broadcasted", now,
                               [indices |-> last.result, err |-> last.err]).waiting_messages])
    /\ disp' = [disp EXCEPT ![d] =
           resume(disp[d].handler, disp[d].msgs, disp[d].mi, disp[d].ci + 1)]
    /\ last' = [last EXCEPT !.op = "write"]
    /\ UNCHANGED <<sockets_list, clients_list, conn, log>>

\* The two threads of __main__ (lines 763-766) with the steps of an append
\* and of a stamp that another thread can come between: peers join, then
\* send messages, while the dispatcher runs. Every document has as many
\* recipient entries as peers have joined but one.
NextRace ==
    \/ \E c \in 1..MaxRaceConns :
          /\ \A b \in Conns : conn[b] # "sorting"
          /\ client_messages.waiting_messages = <<>>
          /\ Joins(c, MaxPeerNotices, MaxAckMsgs)
    \/ \E c \in 1..MaxRaceConns, client_sent \in 1..MaxTs :
          /\ \A b \in Conns : conn[b] # "sorting"
          /\ Len(clients_list) = MaxRaceConns
          /\ AppendTail(c, client_sent)
          /\ Bounded(MaxPeerNotices, MaxAckMsgs)
    \/ \E c \in Conns : AppendSort(c)
    \/ DispatcherScan(1)
    \/ DispatcherSend(1)
    \/ StampFind(1)
    \/ StampWrite(1)

SpecRace == Init /\ [][NextRace]_vars

\* The peer of a connection the server has admitted closes it; the server
\* has the socket in sockets_list until select() reports it and
\* handle_clients removes it.
PeerCloses(c) ==
    /\ conn[c] = "open"
    /\ c \in Range(sockets_list)
    /\ conn' = [conn EXCEPT ![c] = "closed"]
    /\ UNCHANGED <<server_messages, client_messages, sockets_list, clients_list, disp, log, last>>

\* __send_messages, lines 567-582: send() on the socket of a peer that has
\* closed raises. No try statement encloses the call, in __send_messages or
\* in message_dispatcher (lines 516-618): the exception leaves the thread's
\* function and the thread ends.
SendRaises(d) ==
    /\ disp[d].pc = "send"
    /\ \E s \in {recipient_client_socket(disp[d].msgs[disp[d].mi].broadcasted[disp[d].ci])} :
          s # NULL /\ conn[s] = "closed"
    /\ disp' = [disp EXCEPT ![d].pc = "raised"]
    /\ UNCHANGED <<server_messages, client_messages, sockets_list, clients_list, conn, log, last>>

\* The server with peers that join and close their connections while the
\* dispatcher runs: a send to a closed connection goes into the socket's
\* buffer or raises.
NextFail ==
    \/ \E c \in 1..MaxRaceConns : Joins(c, MaxPeerNotices, MaxMsgs)
    \/ \E c \in 1..MaxRaceConns : PeerCloses(c)
    \/ \E c \in 1..MaxRaceConns : conn[c] = "closed" /\ Leaves(c, MaxPeerNotices, MaxMsgs)
    \/ Dispatcher(1)
    \/ SendRaises(1)

SpecFail == Init /\ [][NextFail]_vars

\* what time() returns: seconds since 1970, more than the seconds of a
\* timeout
Clock == (TIMEOUT_SECONDS + 1)..(TIMEOUT_SECONDS + MaxClock)

\* line 607: time() + __timeout if __timeout != 0 else TIMEOUT_SECONDS
end_time(t, __timeout) ==
    IF __timeout # 0 THEN t + __timeout ELSE TIMEOUT_SECONDS

\* message_dispatcher(__timeout) of a Server(__debug=True) is called, lines
\* 591-607: the thread has end_time and stands at the test of the while
\* loop, no pass made
MessageDispatcherCalled(d, __timeout, t) ==
    /\ last.op = "none"
    /\ disp[d].pc = "scan" /\ disp[d].handler = "server"
    /\ disp' = [disp EXCEPT ![d].pc = "loop"]
    /\ last' = [last EXCEPT !.op = "message_dispatcher", !.update_val = <<__timeout>>,
                            !.result = <<end_time(t, __timeout)>>]
    /\ UNCHANGED <<server_messages, client_messages, sockets_list, clients_list, conn, log>>

\* lines 609-612 with self.debug True: the test time() < end_time of the
\* while loop, before the first pass and after every pass. The loop goes on
\* with the GET of __send_messages(self.server_messages, 'server'), or the
\* function returns. time() is not before the reading of line 607.
MessageDispatcherLoop(d, t) ==
    /\ last.op = "message_dispatcher"
    /\ disp[d].pc = "loop" \/ (disp[d].pc = "scan" /\ disp[d].handler = "server")
    /\ last.update_val[1] # 0 => t >= last.result[1] - last.update_val[1]
    /\ IF t < last.result[1]
       THEN \E found \in {query(server_messages, ScanQuery, <<>>, <<NULL>>, <<>>).result} :
                \E msgs \in {snapshot(found)} :
                    disp' = [disp EXCEPT ![d] = resume("server", msgs, 1, 1)]
       ELSE disp' = [disp EXCEPT ![d].pc = "done"]
    /\ UNCHANGED <<server_messages, client_messages, sockets_list, clients_list, conn, log, last>>

\* A Server(__debug=True) whose message_dispatcher is called once while peers
\* join: between two tests of the while loop the thread makes the pass of
\* __send_messages over server_messages and over client_messages.
NextDebug ==
    \/ \E c \in 1..MaxRaceConns : Joins(c, MaxStayNotices, 0)
    \/ \E __timeout \in {0, MaxTimeout}, t \in Clock : MessageDispatcherCalled(1, __timeout, t)
    \/ \E t \in Clock : MessageDispatcherLoop(1, t)
    \/ disp[1].handler = "client" /\ DispatcherScan(1)
    \/ DispatcherSend(1)
    \/ DispatcherStamp(1)

SpecDebug == Init /\ [][NextDebug]_vars

\* A peer connects from an address whose connection the server has seen
\* close: handle_clients has removed its socket and its username (lines
\* 208-235), and the server socket accepts it as it accepts any other.
Reconnects(c) ==
    /\ conn[c] = "closed"
    /\ c \notin Range(sockets_list)
    /\ conn' = [conn EXCEPT ![c] = "new"]
    /\ UNCHANGED <<server_messages, client_messages, sockets_list, clients_list, disp, log, last>>

\* the username was accepted twice: a client has registered under it again
registered_again(client_name) ==
    Cardinality({k \in 1..Len(server_messages.waiting_messages) :
                    is_accepted(server_messages.waiting_messages[k], client_name)}) >= 2

\* The peer gives the username of a client that has left.
Rejoins(c, notices, msgs) ==
    /\ conn[c] = "open" /\ username_of(c) = ""
    /\ \E client_message \in accepted_names \ Range(client_names) :
           UsernameGiven(c, client_message)
    /\ Bounded(notices, msgs)

\* The server with peers that join, send a message, leave and come back
\* under the username they had. The peers join one after the other before
\* the message is sent; one client leaves and comes back after it was stored, and the
\* dispatcher thread runs from then on.
NextRejoin ==
    \/ \E c \in Conns :
          /\ client_messages.waiting_messages = <<>>
          /\ \A b \in 1..(c - 1) : username_of(b) # ""
          /\ Joins(c, MaxRejoinNotices, MaxMsgs)
    \/ \E c \in Conns, client_sent \in 1..MaxSent :
          RegularTextMessage(c, client_sent) /\ Bounded(MaxRejoinNotices, MaxMsgs)
    \/ \E c \in Conns :
          /\ client_messages.waiting_messages # <<>>
          /\ \A b \in Conns : conn[b] # "closed"
          /\ \A n \in Names : ~registered_again(n)
          /\ username_of(c) # ""
          /\ Leaves(c, MaxRejoinNotices, MaxMsgs)
    \/ \E c \in Conns : Reconnects(c)
    \/ \E c \in Conns :
          /\ client_messages.waiting_messages # <<>>
          /\ conn[c] = "new"
          /\ PasscodeGiven(c, TRUE) /\ Bounded(MaxRejoinNotices, MaxMsgs)
    \/ \E c \in Conns : Rejoins(c, MaxRejoinNotices, MaxMsgs)
    \/ /\ \E n \in Range(client_names) : registered_again(n)
       /\ Dispatcher(1)

SpecRejoin == Init /\ [][NextRejoin]_vars

\* The inbound loop alone with peers that stay: they join, send messages
\* and acknowledge the messages the server holds; a peer may also send a
\* message before it has a username.
NextAck ==
    \/ \E c \in Conns : Joins(c, MaxStayNotices, MaxAckMsgs)
    \/ \E c \in Conns : Talks(c, MaxStayNotices, MaxAckMsgs)
    \/ \E c \in Conns : DiscardedMessage(c)

SpecAck == Init /\ [][NextAck]_vars

\* The inbound loop alone, with peers that send PASSCODE_GIVEN,
\* USERNAME_GIVEN and CLIENT_DISCONNECTED in any order and with any
\* payload: handle_incoming_messages hands the three to handle_clients
\* whatever the connection has done before (lines 434-447).
NextPeers ==
    \/ \E c \in Conns, correct \in BOOLEAN :
          PasscodeGiven(c, correct) /\ Bounded(MaxPeerNotices, 0)
    \/ \E c \in Conns, client_message \in Names :
          UsernameGiven(c, client_message) /\ Bounded(MaxPeerNotices, 0)
    \/ \E c \in Conns : ClientDisconnected(c) /\ Bounded(MaxPeerNotices, 0)

SpecPeers == Init /\ [][NextPeers]_vars

\* ------------------------------------------------------------------------
\* message_handler.py: a MessageHandler(MessageSchema, sort_messages_by_date
\* = True) driven directly through append_message and query
\* ------------------------------------------------------------------------

\* the peers whose messages are appended, by address, and the recipients
StoreSenders == {1, 2}

StoreNames == {"a", "b"}

StoreIds == (1..MaxTs) \X StoreSenders

RecipientLists == UNION {[1..n -> StoreNames] : n \in 0..MaxRecipients}

\* the condition items of the WHERE clauses
c_id == [key |-> <<"message_id">>, func |-> "=="]

c_name == [key |-> <<"broadcasted", "client_name">>, func |-> "=="]

c_sent == [key |-> <<"broadcasted", "message_sent_at">>, func |-> "=="]

\* WHERE clauses with their values:
\*   WHERE broadcasted.client_name=={}
\*   WHERE message_id=={}
\*   WHERE broadcasted.message_sent_at=={}            (value None)
StoreWheres ==
    {[conds |-> <<c_name>>, vals |-> <<n>>] : n \in StoreNames}
    \cup {[conds |-> <<c_id>>, vals |-> <<id>>] : id \in StoreIds}
    \cup {[conds |-> <<c_sent>>, vals |-> <<NULL>>]}

\* the assignments of the UPDATE queries
StoreFields == {<<"broadcasted", "message_sent_at">>}

\* a field of the schema that is not tagged MODIFIABLE; a field the schema
\* does not have fails the same test (lines 98-102 and 127-130)
BadFields == {<<"client_name">>}

\* the values they assign
StoreValues == {MaxTs}

Query(verb, foi, items, conds) == [verb |-> verb, foi |-> foi, items |-> items, conds |-> conds]

NoWhere == [conds |-> <<>>, vals |-> <<>>]

\* the call returns: the store is what the call left, and the call with its
\* arguments, its return value, whether it raised and whether it changed the
\* store is the last call
Called(q, update_val, where, r) ==
    /\ client_messages' = r.mh
    /\ last' = [op |-> q.verb, q |-> q, update_val |-> update_val, where |-> where,
                result |-> r.result, err |-> r.err, changed |-> r.mh # client_messages]
    /\ UNCHANGED <<server_messages, sockets_list, clients_list, conn, disp, log>>

\* the keyword arguments of a call of append_message, message_id=None among
\* them as in server.py, line 467, as written or with one defect: a required
\* field left out, a field the schema does not define, or None where the
\* schema wants a datetime
Defects == {"none", "missing field", "undefined field", "wrong type"}

store_kwargs(client_address, client_sent, recipients, defect) ==
    LET full == [message_id |-> <<>>,
                 client_name |-> NameOrder[client_address],
                 timestamps |-> [client_sent |-> IF defect = "wrong type" THEN NULL ELSE client_sent],
                 client_address |-> client_address,
                 broadcasted |-> recipients]
    IN  CASE defect = "missing field" ->
                [f \in DOMAIN full \ {"client_name"} |-> full[f]]
          [] defect = "undefined field" ->
                [f \in DOMAIN full \cup {"undefined_field"} |->
                    IF f = "undefined_field" THEN "bar" ELSE full[f]]
          [] OTHER -> full

\* append_message(**kwargs) called on the store. A peer does not originate
\* two messages with the same timestamp (schema.py, lines 96-97). The last
\* call keeps the timestamp and the address of an appended message, and of
\* a rejected call only that it raised.
StoreAppendBelow(kwargs, docs) ==
    /\ Len(client_messages.waiting_messages) < docs
    /\ schema_accepts(kwargs) =>
           \A m \in Range(client_messages.waiting_messages) :
               <<m.timestamps.client_sent, m.client_address>>
                   # <<kwargs.timestamps.client_sent, kwargs.client_address>>
    /\ client_messages' = append_kwargs(client_messages, kwargs).mh
    /\ last' = [op |-> "append", q |-> Query("", "", <<>>, <<>>),
                update_val |-> IF schema_accepts(kwargs)
                               THEN <<kwargs.timestamps.client_sent, kwargs.client_address>>
                               ELSE <<>>,
                where |-> NoWhere, result |-> <<>>,
                err |-> append_kwargs(client_messages, kwargs).err,
                changed |-> append_kwargs(client_messages, kwargs).mh # client_messages]
    /\ UNCHANGED <<server_messages, sockets_list, clients_list, conn, disp, log>>

StoreAppend(kwargs) == StoreAppendBelow(kwargs, MaxDocs)

\* query("GET ALL")
QueryGetAll ==
    Called(Query("GET ALL", "", <<>>, <<>>), <<>>, NoWhere,
           query(client_messages, Query("GET ALL", "", <<>>, <<>>), <<>>, <<>>, <<>>))

\* query("GET WHERE ...", where_val=[...])
QueryGetWhere(where) ==
    Called(Query("GET WHERE", "", <<>>, where.conds), <<>>, where,
           query(client_messages, Query("GET WHERE", "", <<>>, where.conds),
                 <<>>, where.vals, <<>>))

\* query("UPDATE f={} WHERE ...", update_val=[value], where_val=[...])
QueryUpdateWhere(field, value, where) ==
    Called(Query("UPDATE WHERE", "", <<field>>, where.conds), <<value>>, where,
           query(client_messages, Query("UPDATE WHERE", "", <<field>>, where.conds),
                 <<value>>, where.vals, <<>>))

\* query("UPDATE f={}, g={} WHERE ...", update_val=[value, other_value],
\* where_val=[...])
QueryUpdateTwoWhere(field, value, other, other_value, where) ==
    Called(Query("UPDATE WHERE", "", <<field, other>>, where.conds), <<value, other_value>>, where,
           query(client_messages, Query("UPDATE WHERE", "", <<field, other>>, where.conds),
                 <<value, other_value>>, where.vals, <<>>))

\* query("UPDATE ALL f={}", update_val=[value])
QueryUpdateAll(field, value) ==
    Called(Query("UPDATE ALL", "", <<field>>, <<>>), <<value>>, NoWhere,
           query(client_messages, Query("UPDATE ALL", "", <<field>>, <<>>),
                 <<value>>, <<>>, <<>>))

\* query("DELETE WHERE ...", where_val=[...])
QueryDeleteWhere(where) ==
    Called(Query("DELETE WHERE", "", <<>>, where.conds), <<>>, where,
           query(client_messages, Query("DELETE WHERE", "", <<>>, where.conds),
                 <<>>, where.vals, <<>>))

\* query("DELETE IN(broadcasted) WHERE ...", where_val=[...]); list(set(
\* indices)) lists the access points in some order
QueryDeleteIn(where) ==
    \E order \in Orders(get_messages(client_messages.waiting_messages,
                                     str_to_cond_dict(where.conds, where.vals)).indices) :
        Called(Query("DELETE IN", "broadcasted", <<>>, where.conds), <<>>, where,
               query(client_messages, Query("DELETE IN", "broadcasted", <<>>, where.conds),
                     <<>>, where.vals, order))

NextStore ==
    \/ \E client_address \in StoreSenders, client_sent \in 1..MaxTs, recipients \in RecipientLists :
          StoreAppend(store_kwargs(client_address, client_sent, recipients, "none"))
    \/ QueryGetAll
    \/ \E where \in StoreWheres : QueryGetWhere(where)
    \/ \E field \in StoreFields, value \in StoreValues, where \in StoreWheres :
          QueryUpdateWhere(field, value, where)
    \/ \E where \in StoreWheres : QueryDeleteWhere(where)
    \/ \E where \in StoreWheres : QueryDeleteIn(where)

SpecStore == Init /\ [][NextStore]_vars

\* The store of one peer's messages, with calls that raise: appends the
\* schema rejects and updates that name a field that cannot be assigned or
\* give a value that is no datetime.
NextStoreErr ==
    \/ \E client_sent \in 1..MaxTs, recipients \in RecipientLists, defect \in Defects :
          StoreAppend(store_kwargs(1, client_sent, recipients, defect))
    \/ \E field \in StoreFields \cup BadFields, value \in StoreValues, where \in StoreWheres :
          QueryUpdateWhere(field, value, where)
    \/ \E field \in StoreFields \cup BadFields, value \in StoreValues, where \in StoreWheres :
          \E other \in (StoreFields \cup BadFields) \ {field} :
              QueryUpdateTwoWhere(field, value, other, value, where)
    \/ \E value, other_value \in StoreValues \cup {NotADatetime}, where \in StoreWheres :
          /\ NotADatetime \in {value, other_value}
          /\ QueryUpdateTwoWhere(<<"broadcasted", "message_sent_at">>, value,
                                 <<"broadcasted", "message_received_at">>, other_value, where)

SpecStoreErr == Init /\ [][NextStoreErr]_vars

\* The store appended to with message_id None or given by the caller, and
\* read.
NextStoreId ==
    \/ \E client_address \in StoreSenders, client_sent \in 1..MaxTs, message_id \in {<<>>} \cup StoreIds :
          StoreAppendBelow([store_kwargs(client_address, client_sent, <<>>, "none")
                               EXCEPT !.message_id = message_id], MaxIdDocs)
    \/ QueryGetAll

SpecStoreId == Init /\ [][NextStoreId]_vars

\* WHERE clauses that __is_in_schema rejects:
\*   WHERE foo=={}                                   (a field not in the schema)
\*   WHERE broadcasted.message_sent_at=={}           (a value that is no datetime)
BadWheres ==
    {[conds |-> <<[key |-> <<"foo">>, func |-> "=="]>>, vals |-> <<"bar">>],
     [conds |-> <<c_sent>>, vals |-> <<NotADatetime>>]}

c_received == [key |-> <<"timestamps", "server_received">>, func |-> "=="]

\* WHERE timestamps.server_received=={}
ReceivedWheres == {[conds |-> <<c_received>>, vals |-> <<t>>] : t \in 1..MaxTs}

\* a WHERE clause of two conditions with one value:
\*   WHERE broadcasted.client_name=={} AND broadcasted.message_sent_at=={}
ShortWheres == {[conds |-> <<c_name, c_sent>>, vals |-> <<n>>] : n \in StoreNames}

\* The store of one peer's messages with further forms of query: an UPDATE
\* of two fields of the recipient entries, a GET that __is_in_schema
\* rejects, an UPDATE ALL of a field of the recipient entries, a DELETE IN
\* with a condition on a timestamp of the document, a GET and a DELETE with
\* fewer values than conditions.
NextQueries ==
    \/ \E client_sent \in 1..MaxTs, recipients \in RecipientLists :
          StoreAppend(store_kwargs(1, client_sent, recipients, "none"))
    \/ \E value, other_value \in StoreValues, where \in StoreWheres :
          QueryUpdateTwoWhere(<<"broadcasted", "message_sent_at">>, value,
                              <<"broadcasted", "message_received_at">>, other_value, where)
    \/ \E where \in BadWheres : QueryGetWhere(where)
    \/ \E value \in StoreValues : QueryUpdateAll(<<"broadcasted", "message_sent_at">>, value)
    \/ \E where \in ReceivedWheres : QueryDeleteIn(where)
    \/ \E where \in ShortWheres : QueryGetWhere(where)
    \/ \E where \in ShortWheres : QueryDeleteWhere(where)

SpecQueries == Init /\ [][NextQueries]_vars

\* The store of one peer's messages, queried with strings that the checks
\* of query accept or reject.

\* the words the query strings are written with: the verbs, AND, OR,
\* a capitalized word that is no method, a field name, commas without the
\* space after and with a space before, and characters that are not allowed
QueryWords ==
    {<<"G", "E", "T">>, <<"A", "L", "L">>, <<"D", "E", "L", "E", "T", "E">>,
     <<"A", "N", "D">>, <<"O", "R">>, <<"X">>, <<"x">>, <<"x", ",">>, <<",", "x">>,
     <<"x", ",", "x">>, <<"x", ":">>, <<"x", "&">>, <<"0", "x">>}

\* ' '.join(words)
RECURSIVE str_join(_)
str_join(words) ==
    IF Len(words) = 0 THEN <<>>
    ELSE IF Len(words) = 1 THEN words[1]
    ELSE words[1] \o <<" ">> \o str_join(Tail(words))

\* the empty string, the strings of MaxWords words at most, and two words
\* joined by AND
QueryTexts ==
    {str_join(words) : words \in UNION {[1..n -> QueryWords] : n \in 0..MaxWords}}
    \cup {str_join(<<w, <<"A", "N", "D">>, v>>) : w, v \in QueryWords}

\* query(_query): the last call keeps the string, what the call returned,
\* the exception that left it and whether the store changed
QueryText(_query) ==
    \E r \in {query_text(client_messages, _query)} :
        /\ client_messages' = r.mh
        /\ last' = [op |-> "query", text |-> _query, result |-> r.result, raised |-> r.raised,
                    err |-> r.raised # "", changed |-> r.mh # client_messages]
        /\ UNCHANGED <<server_messages, sockets_list, clients_list, conn, disp, log>>

NextText ==
    \/ \E client_sent \in 1..MaxTs :
          StoreAppend(store_kwargs(1, client_sent, <<>>, "none"))
    \/ \E _query \in QueryTexts : QueryText(_query)

SpecText == Init /\ [][NextText]_vars

\* ------------------------------------------------------------------------
\* Delivery state of the recipient entries
\* ------------------------------------------------------------------------

\* the recipient entries of a handler, as (message, index in broadcasted)
entries_of(mh) ==
    UNION {{<<m, j>> : j \in 1..Len(m.broadcasted)} : m \in Range(mh.waiting_messages)}

HandlerNames == {"server", "client"}

\* C1: in every reachable state, no recipient entry of either store has
\* message_received_at set while its message_sent_at is still null.
C1_ReceivedOnlyAfterSent ==
    \A h \in HandlerNames :
        \A e \in entries_of(handler_of(h, server_messages, client_messages)) :
            e[1].broadcasted[e[2]].message_received_at # NULL
                => e[1].broadcasted[e[2]].message_sent_at # NULL

\* C2: with two dispatcher threads passing over the same pending entry of a
\* connected recipient, the message goes out to that recipient once, not
\* twice.
C2_TransmittedOnce ==
    \A key \in DOMAIN log : log[key] <= 1

\* C4: message_sent_at is set only on entries the dispatcher transmitted
\* to: every stamped entry has had its message sent to its recipient.
C4_StampedOnlyIfTransmitted ==
    \A h \in HandlerNames :
        \A e \in entries_of(handler_of(h, server_messages, client_messages)) :
            e[1].broadcasted[e[2]].message_sent_at # NULL
                => sends(<<h, e[1].message_id, e[1].broadcasted[e[2]].client_name>>) >= 1

\* the ids the messages of a handler may have
ids_of(h) ==
    IF h = "server" THEN {<<k, ServerAddr>> : k \in 1..MaxStayNotices}
    ELSE (1..MaxSent) \X Conns

\* entry j of the message with the id given is in the handler and pending,
\* and its recipient has a socket the dispatcher finds
pending_connected(h, id, j) ==
    \E m \in Range(handler_of(h, server_messages, client_messages).waiting_messages) :
        /\ m.message_id = id
        /\ j <= Len(m.broadcasted)
        /\ m.broadcasted[j].message_sent_at = NULL
        /\ recipient_client_socket(m.broadcasted[j].client_name) # NULL

\* the message went out to the recipient of that entry and the entry is
\* stamped
transmitted_stamped(h, id, j) ==
    \E m \in Range(handler_of(h, server_messages, client_messages).waiting_messages) :
        /\ m.message_id = id
        /\ j <= Len(m.broadcasted)
        /\ m.broadcasted[j].message_sent_at # NULL
        /\ sends(<<h, id, m.broadcasted[j].client_name>>) >= 1

\* C3: while no peer leaves and the dispatcher keeps running, every pending
\* entry of a connected recipient is eventually transmitted and stamped,
\* whatever the number of recipient entries of its message.
C3_PendingEventuallyDelivered ==
    \A h \in HandlerNames : \A id \in ids_of(h) : \A j \in 1..MaxRecipients :
        pending_connected(h, id, j) ~> transmitted_stamped(h, id, j)

\* ------------------------------------------------------------------------
\* The store driven directly
\* ------------------------------------------------------------------------

\* _list is in non-decreasing order of timestamps.client_sent
sorted_by_client_sent(_list) ==
    \A k \in 1..(Len(_list) - 1) :
        _list[k].timestamps.client_sent <= _list[k + 1].timestamps.client_sent

\* C6: with sort_messages_by_date enabled, after any sequence of appends,
\* updates and deletes the documents of the store, and the result of GET
\* ALL, are in non-decreasing order of timestamps.client_sent.
C6_StoreSortedByDate ==
    /\ sorted_by_client_sent(client_messages.waiting_messages)
    /\ last.op = "GET ALL" => sorted_by_client_sent(last.result)

\* a message older than the one in the store was appended after it and is
\* now in front of it
C6_AppendedOutOfOrder ==
    /\ last.op = "append"
    /\ Len(client_messages.waiting_messages) = 2
    /\ client_messages.waiting_messages[1].message_id = <<last.update_val[1], last.update_val[2]>>
    /\ client_messages.waiting_messages[1].timestamps.client_sent
           < client_messages.waiting_messages[2].timestamps.client_sent

\* condition c with value val is met somewhere in the message: by the field,
\* by the field of the nested record, or by at least one element of the
\* embedded list
satisfied(message, c, val) ==
    \E v \in compared_values(message, c) : logical_func(c.func, v, val)

\* C7: GET WHERE returns a document if and only if every condition is met
\* somewhere in it, whatever the number of list elements that meet a
\* condition.
C7_FoundIffEveryConditionMet ==
    (last.op = "GET WHERE" /\ ~last.err) =>
        \A m \in Range(client_messages.waiting_messages) :
            (m \in Range(last.result)) <=>
                \A k \in 1..Len(last.where.conds) :
                    satisfied(m, last.where.conds[k], last.where.vals[k])

\* the WHERE clause message_id=={} with the id given
where_id(id) == [conds |-> <<c_id>>, vals |-> <<id>>]

\* what GET WHERE message_id=={} returns from the store
got_by_id(mh, id) ==
    query(mh, Query("GET WHERE", "", <<>>, <<c_id>>), <<>>, <<id>>, <<>>).result

\* C8: UPDATE f={} WHERE message_id=={} on a stored document, followed by
\* GET WHERE message_id=={}, returns that document with f equal to the new
\* value, and no other document is altered.
C8_UpdateByIdThenGet ==
    [][\A field \in StoreFields, value \in StoreValues, id \in message_ids :
          QueryUpdateWhere(field, value, where_id(id)) =>
              /\ Len(got_by_id(client_messages', id)) = 1
              /\ \A e \in Range(got_by_id(client_messages', id)[1].broadcasted) :
                     e[field[2]] = value
              /\ \A k \in 1..Len(client_messages.waiting_messages) :
                     client_messages.waiting_messages[k].message_id # id =>
                         client_messages'.waiting_messages[k] = client_messages.waiting_messages[k]]_vars

\* the recipient entries whose client_name is not the one given
without_name(broadcasted, client_name) ==
    SelectSeq(broadcasted, LAMBDA e : e.client_name # client_name)

\* C9: DELETE IN(broadcasted) WHERE broadcasted.client_name=={} removes
\* exactly the entries with that name, however many a document has, and
\* leaves the other entries, the documents and their order as they were.
C9_DeleteInRemovesMatching ==
    [][\A client_name \in StoreNames :
          QueryDeleteIn([conds |-> <<c_name>>, vals |-> <<client_name>>]) =>
              client_messages'.waiting_messages =
                  [k \in 1..Len(client_messages.waiting_messages) |->
                      [client_messages.waiting_messages[k] EXCEPT
                          !.broadcasted = without_name(@, client_name)]]]_vars

\* C10: DELETE IN(broadcasted) WHERE message_id=={} empties the broadcasted
\* list of the document with that id, keeps the document, and leaves the
\* other documents unchanged.
C10_DeleteInByIdClears ==
    [][\A id \in StoreIds :
          (last'.where = where_id(id) /\ QueryDeleteIn(where_id(id))) =>
              /\ ~last'.err
              /\ client_messages'.waiting_messages =
                     [k \in 1..Len(client_messages.waiting_messages) |->
                         IF client_messages.waiting_messages[k].message_id = id
                         THEN [client_messages.waiting_messages[k] EXCEPT !.broadcasted = <<>>]
                         ELSE client_messages.waiting_messages[k]]]_vars

\* the call emptied the list of one of two documents; the other still has
\* its two entries
C10_ListCleared ==
    /\ last.op = "DELETE IN" /\ last.where.conds = <<c_id>> /\ last.changed
    /\ Len(client_messages.waiting_messages) = 2
    /\ \E k \in 1..2 :
          /\ client_messages.waiting_messages[k].message_id = last.where.vals[1]
          /\ client_messages.waiting_messages[k].broadcasted = <<>>
          /\ Len(client_messages.waiting_messages[3 - k].broadcasted) = 2

\* every condition of the WHERE clause is met somewhere in the message
meets(message, where) ==
    \A k \in 1..Len(where.conds) : satisfied(message, where.conds[k], where.vals[k])

\* C11: DELETE WHERE removes exactly the documents that meet the conditions,
\* each once even when several of its recipient entries meet them, and
\* keeps the other documents in their order.
C11_DeleteWhereRemovesMatching ==
    [][\A where \in StoreWheres :
          QueryDeleteWhere(where) =>
              client_messages'.waiting_messages =
                  SelectSeq(client_messages.waiting_messages,
                            LAMBDA m : ~meets(m, where))]_vars

C13_BadFieldUpdateLeavesStore ==
    [][(/\ last'.op = "UPDATE WHERE"
        /\ \E k \in 1..Len(last'.q.items) : last'.q.items[k] \notin ModifiableFields)
          => (last'.err /\ client_messages' = client_messages)]_vars


\* ------------------------------------------------------------------------
\* The checks on the query string
\* ------------------------------------------------------------------------

\* the query has a character that is not allowed, a comma that no space
\* follows or a comma that a space precedes
malformed(_query) ==
    \/ \E k \in 1..Len(_query) : _query[k] \notin allowed_characters
    \/ \E k \in 1..Len(_query) : _query[k] = "," /\ (k = Len(_query) \/ _query[k + 1] # " ")
    \/ \E k \in 2..Len(_query) : _query[k] = "," /\ _query[k - 1] = " "

\* C14: a query string with a character outside the allowed set, a comma
\* not followed by a space or a comma preceded by a space is rejected with
\* a usage error (ValueError), and the call neither returns documents nor
\* changes the store.
C14_MalformedQueryIsUsageError ==
    (last.op = "query" /\ malformed(last.text))
        => (last.raised = "ValueError" /\ ~last.changed /\ last.result = <<>>)

\* the words of the query as written, AND among them
words_of(_query) == Range(str_split(_query, 1, <<>>))

\* C15: a query with the word OR, or with an all-uppercase word other than
\* GET, UPDATE, DELETE, WHERE, ALL, IN and the AND that is rewritten to a
\* comma, is rejected with a usage error (ValueError) and the store is
\* unchanged.
C15_UnknownMethodIsUsageError ==
    (last.op = "query"
     /\ \E word \in words_of(last.text) :
            isupper(word) /\ word \notin allowed_methods \cup {<<"A", "N", "D">>})
        => (last.raised = "ValueError" /\ ~last.changed)


\* ------------------------------------------------------------------------
\* The handshake: passcode, username, disconnection
\* ------------------------------------------------------------------------

\* the notices a step appends to server_messages, and that it leaves the
\* earlier ones as they were
new_notices ==
    SubSeq(server_messages'.waiting_messages,
           Len(server_messages.waiting_messages) + 1, Len(server_messages'.waiting_messages))

kept_notices ==
    SubSeq(server_messages'.waiting_messages, 1, Len(server_messages.waiting_messages))
        = server_messages.waiting_messages

\* the notice is of this response type and addressed to these recipients
is_notice(notice, response_type, recipients) ==
    /\ notice.response_type = response_type
    /\ [k \in 1..Len(notice.broadcasted) |-> notice.broadcasted[k].client_name] = recipients

\* server_messages holds such a notice
has_notice(response_type, recipients) ==
    \E k \in 1..Len(server_messages.waiting_messages) :
        is_notice(server_messages.waiting_messages[k], response_type, recipients)

\* C16: at every reachable state every address in clients_list belongs to
\* a socket of sockets_list: a connection is Named only after its passcode
\* was accepted.
C16_NamedOnlyAfterPasscode ==
    \A k \in 1..Len(clients_list) : clients_list[k].addr \in Range(sockets_list)

\* C17: handling PASSCODE_GIVEN with the server's passcode adds the
\* connection to sockets_list and appends one PASSCODE_CORRECT notice
\* addressed to the connection's serialized address; with another passcode
\* it leaves sockets_list and clients_list unchanged and appends one
\* PASSCODE_INCORRECT notice addressed to the connection.
C17_PasscodeGivenHandled ==
    [][\A c \in Conns, correct \in BOOLEAN :
          PasscodeGiven(c, correct) =>
              /\ kept_notices
              /\ Len(new_notices) = 1
              /\ clients_list' = clients_list
              /\ IF correct
                 THEN /\ sockets_list' = Append(sockets_list, c)
                      /\ is_notice(new_notices[1], "PASSCODE_CORRECT", <<pickle_dumps(c)>>)
                 ELSE /\ sockets_list' = sockets_list
                      /\ is_notice(new_notices[1], "PASSCODE_INCORRECT", <<pickle_dumps(c)>>)]_vars

\* one connection was admitted and told so, another was refused and told so
C17_AdmittedAndRefused ==
    \E c, b \in Conns :
        /\ c \in Range(sockets_list) /\ has_notice("PASSCODE_CORRECT", <<pickle_dumps(c)>>)
        /\ b \notin Range(sockets_list) /\ has_notice("PASSCODE_INCORRECT", <<pickle_dumps(b)>>)

\* C18: no two entries of clients_list have the same client_name, and a
\* USERNAME_GIVEN with a registered name appends one USERNAME_ALREADY_EXISTS
\* notice addressed to the requesting connection and leaves clients_list
\* and sockets_list unchanged.
C18_UsernamesUnique ==
    /\ [](\A j, k \in 1..Len(clients_list) :
             clients_list[j].client_name = clients_list[k].client_name => j = k)
    /\ [][\A c \in Conns, client_message \in Names :
             (/\ \E k \in 1..Len(clients_list) : clients_list[k].client_name = client_message
              /\ UsernameGiven(c, client_message))
                 => /\ clients_list' = clients_list
                    /\ sockets_list' = sockets_list
                    /\ kept_notices
                    /\ Len(new_notices) = 1
                    /\ is_notice(new_notices[1], "USERNAME_ALREADY_EXISTS", <<pickle_dumps(c)>>)]_vars

\* a connection asked for a username that another connection holds
C18_DuplicateRefused ==
    \E c \in Conns :
        /\ has_notice("USERNAME_ALREADY_EXISTS", <<pickle_dumps(c)>>)
        /\ \E k \in 1..Len(clients_list) : clients_list[k].addr # c
        /\ c \in Range(sockets_list)

\* C19: a USERNAME_GIVEN with a name not yet registered appends exactly the
\* entry (name, address) to clients_list, appends a USERNAME_ACCEPTED notice
\* addressed to that name, and then a CLIENT_CONNECTED notice addressed to
\* exactly the clients Named before, if and only if there was one.
C19_FreshUsernameRegistered ==
    [][\A c \in Conns, client_message \in Names :
          (/\ \A k \in 1..Len(clients_list) : clients_list[k].client_name # client_message
           /\ UsernameGiven(c, client_message))
              => /\ clients_list' = Append(clients_list, [client_name |-> client_message, addr |-> c])
                 /\ kept_notices
                 /\ Len(new_notices) = (IF Len(clients_list) >= 1 THEN 2 ELSE 1)
                 /\ is_notice(new_notices[1], "USERNAME_ACCEPTED", <<client_message>>)
                 /\ Len(clients_list) >= 1 =>
                        is_notice(new_notices[2], "CLIENT_CONNECTED", client_names)]_vars

\* two connections are Named and the first was told of the second
C19_SecondClientAnnounced ==
    /\ Len(clients_list) = 2
    /\ clients_list[1].addr # clients_list[2].addr
    /\ has_notice("USERNAME_ACCEPTED", <<clients_list[2].client_name>>)
    /\ has_notice("CLIENT_CONNECTED", <<clients_list[1].client_name>>)

\* C20: after CLIENT_DISCONNECTED is handled for a connection, whatever it
\* did before, the connection is in neither sockets_list nor clients_list;
\* if it was Named one CLIENT_DISCONNECTED notice addressed to the
\* remaining Named clients is appended, and if it was not, none.
C20_DisconnectedIsForgotten ==
    [][\A c \in Conns :
          ClientDisconnected(c) =>
              /\ c \notin Range(sockets_list')
              /\ \A k \in 1..Len(clients_list') : clients_list'[k].addr # c
              /\ kept_notices
              /\ IF c \in Range(client_addrs)
                 THEN /\ Len(new_notices) = 1
                      /\ is_notice(new_notices[1], "CLIENT_DISCONNECTED",
                             [k \in 1..Len(clients_list') |-> clients_list'[k].client_name])
                 ELSE new_notices = <<>>]_vars


\* ------------------------------------------------------------------------
\* Acknowledgements
\* ------------------------------------------------------------------------

\* C5: an acknowledgement from the Named user of connection c that names
\* message id M sets message_received_at on the recipient entries named
\* after that user inside the document with message_id M, and leaves every
\* other recipient entry of that document and every other document as it
\* was.
C5_AckSetsOnlyNamedEntry ==
    [][\A c \in Conns, client_sent \in 1..MaxSent, message \in message_ids :
          MessageReceivedResponse(c, client_sent, message) =>
              /\ Len(client_messages'.waiting_messages) = Len(client_messages.waiting_messages)
              /\ \A i \in 1..Len(client_messages.waiting_messages) :
                    client_messages'.waiting_messages[i] =
                        [client_messages.waiting_messages[i] EXCEPT !.broadcasted =
                            [j \in 1..Len(@) |->
                                IF /\ client_messages.waiting_messages[i].message_id = message
                                   /\ @[j].client_name = username_of(c)
                                THEN [@[j] EXCEPT !.message_received_at = client_sent]
                                ELSE @[j]]]]_vars

\* a document with two recipient entries of which one is acknowledged, and
\* another document that the same recipient has not acknowledged
C5_OneEntryAcknowledged ==
    \E i, h \in 1..Len(client_messages.waiting_messages) :
        /\ i # h
        /\ \E j, k \in 1..Len(client_messages.waiting_messages[i].broadcasted) :
              /\ client_messages.waiting_messages[i].broadcasted[j].message_received_at # NULL
              /\ client_messages.waiting_messages[i].broadcasted[k].message_received_at = NULL
              /\ \E g \in 1..Len(client_messages.waiting_messages[h].broadcasted) :
                    /\ client_messages.waiting_messages[h].broadcasted[g].client_name =
                           client_messages.waiting_messages[i].broadcasted[j].client_name
                    /\ client_messages.waiting_messages[h].broadcasted[g].message_received_at = NULL


\* ------------------------------------------------------------------------
\* Message ids
\* ------------------------------------------------------------------------

C23_EqualKeysKeepAppendOrder ==
    [][Len(client_messages'.waiting_messages) = Len(client_messages.waiting_messages) + 1 =>
          LET old == client_messages.waiting_messages
              new == client_messages'.waiting_messages
              keys == client_messages'.timestamp_key
          IN  \E p \in 1..Len(new) :
                  /\ SubSeq(new, 1, p - 1) \o SubSeq(new, p + 1, Len(new)) = old
                  /\ \A k \in 1..(p - 1) : sort_key(new[k], keys) <= sort_key(new[p], keys)
                  /\ \A k \in (p + 1)..Len(new) : sort_key(new[k], keys) > sort_key(new[p], keys)]_vars

\* two documents of one sort key are stored behind a document of an earlier
\* key, which is the one the last append added
C23_EqualKeysAfterFurtherAppend ==
    /\ last.op = "append"
    /\ Len(client_messages.waiting_messages) = 3
    /\ LET wm == client_messages.waiting_messages
       IN  /\ wm[1].timestamps.client_sent < wm[2].timestamps.client_sent
           /\ wm[2].timestamps.client_sent = wm[3].timestamps.client_sent
           /\ last.update_val = <<wm[1].timestamps.client_sent, wm[1].client_address>>

\* ------------------------------------------------------------------------
\* The inbound loop and the dispatcher on one store
\* ------------------------------------------------------------------------

\* C24: while the inbound loop appends, every scan of the dispatcher reads
\* the documents of the store in non-decreasing order of the sort key; no
\* read finds a document just appended out of its place.
C24_ScanReadsSortedStore ==
    [][DispatcherScan(1) /\ disp[1].handler = "client" =>
          sorted_by_client_sent(query(client_messages, ScanQuery, <<>>, <<NULL>>, <<>>).result)]_vars

\* C25: when an append with its re-sort comes between the find and the
\* writes of the stamp, the stamp is still written to the document the find
\* matched, never to an entry of another document.
C25_StampHitsMatchedDocument ==
    [][StampWrite(1) /\ disp[1].handler = "client" =>
          \A k \in 1..Len(client_messages.waiting_messages) :
              client_messages'.waiting_messages[k] # client_messages.waiting_messages[k] =>
                  client_messages.waiting_messages[k].message_id
                      = disp[1].msgs[disp[1].mi].message_id]_vars

\* ------------------------------------------------------------------------
\* Failures inside the loops
\* ------------------------------------------------------------------------

\* C26: when the send to one recipient's socket raises, the dispatcher loop
\* does not end; it goes on with the recipients that remain.
C26_DispatcherOutlivesFailedSend ==
    disp[1].pc # "raised"

\* ------------------------------------------------------------------------
\* Peer messages as stored and as dispatched
\* ------------------------------------------------------------------------

C28_StampChangesOnlyItsDocument ==
    [][DispatcherStamp(1) =>
          \A h \in HandlerNames :
              LET old == handler_of(h, server_messages, client_messages).waiting_messages
                  new == handler_of(h, server_messages', client_messages').waiting_messages
              IN  \A k \in 1..Len(old) :
                      new[k] # old[k] =>
                          h = disp[1].handler /\ old[k].message_id = disp[1].msgs[disp[1].mi].message_id]_vars

\* C29: the dispatcher transmits a message only to recipient entries whose
\* message_sent_at is null: an entry that is stamped receives no further
\* transmission, in the pass that stamped it or in a later one.
C29_StampedEntryNotTransmittedAgain ==
    [][(DispatcherSend(1) /\ log' # log) =>
          \A m \in Range(handler_of(disp[1].handler, server_messages, client_messages).waiting_messages) :
              m.message_id = disp[1].msgs[disp[1].mi].message_id =>
                  m.broadcasted[disp[1].ci].message_sent_at = NULL]_vars

\* ------------------------------------------------------------------------
\* Values of the wrong type in an UPDATE
\* ------------------------------------------------------------------------

\* C30: in an UPDATE with two assignments of which one gives a value that
\* does not fit the type of its field, a type error is raised, that
\* assignment writes nothing, and the other assignment is applied to the
\* rows matched.
C30_OtherAssignmentsApplied ==
    [][\A value, other_value \in StoreValues \cup {NotADatetime}, where \in StoreWheres :
          (/\ (value = NotADatetime) # (other_value = NotADatetime)
           /\ QueryUpdateTwoWhere(<<"broadcasted", "message_sent_at">>, value,
                                  <<"broadcasted", "message_received_at">>, other_value, where))
              => /\ last'.err
                 /\ client_messages' =
                        IF value = NotADatetime
                        THEN query(client_messages,
                                   Query("UPDATE WHERE", "", << <<"broadcasted", "message_received_at">> >>,
                                         where.conds),
                                   <<other_value>>, where.vals, <<>>).mh
                        ELSE query(client_messages,
                                   Query("UPDATE WHERE", "", << <<"broadcasted", "message_sent_at">> >>,
                                         where.conds),
                                   <<value>>, where.vals, <<>>).mh]_vars

\* ------------------------------------------------------------------------
\* Further forms of query
\* ------------------------------------------------------------------------

C32_BadConditionRaises ==
    (last.op = "GET WHERE" /\ last.where \in BadWheres) => last.err

\* C33: after UPDATE ALL broadcasted.message_sent_at={} every recipient
\* entry of every document has the value given in message_sent_at, and the
\* call did not raise.
C33_UpdateAllSetsEveryEntry ==
    last.op = "UPDATE ALL"
        => /\ ~last.err
           /\ \A m \in Range(client_messages.waiting_messages) :
                  \A j \in 1..Len(m.broadcasted) :
                      m.broadcasted[j].message_sent_at = last.update_val[1]

\* C35: after DELETE IN(broadcasted) WHERE timestamps.server_received=={}
\* the call did not raise, and the recipient list of every document received
\* at the time given is empty.
C35_DeleteInClearsMatchingLists ==
    (last.op = "DELETE IN" /\ last.where \in ReceivedWheres)
        => /\ ~last.err
           /\ \A m \in Range(client_messages.waiting_messages) :
                  m.timestamps.server_received = last.where.vals[1] => m.broadcasted = <<>>

\* C40: a GET or DELETE with two conditions and one value does not execute
\* with the first condition alone: the call raises.
C40_FewerValuesThanConditionsRaises ==
    last.where \in ShortWheres => last.err

\* ------------------------------------------------------------------------
\* Connections, usernames and delivery over time
\* ------------------------------------------------------------------------

\* C38: no two entries of clients_list have the same address, whatever the
\* connections send and however often they send USERNAME_GIVEN.
C38_OneUsernamePerConnection ==
    \A j, k \in 1..Len(clients_list) :
        clients_list[j].addr = clients_list[k].addr => j = k

\* C39: within one pass of the dispatcher over client_messages, a message
\* transmitted to a recipient was sent by its client no earlier than every
\* message the pass has transmitted to that recipient before it. (No peer
\* leaves in SpecRace: the pass transmits every entry it comes to.)
C39_PassTransmitsInClientSentOrder ==
    [][(DispatcherSend(1) /\ log' # log /\ disp[1].handler = "client") =>
          \A m \in 1..(disp[1].mi - 1) :
              disp[1].msgs[disp[1].mi].broadcasted[disp[1].ci] \in Range(disp[1].msgs[m].broadcasted)
                  => disp[1].msgs[m].message_id[1] <= disp[1].msgs[disp[1].mi].message_id[1]]_vars

\* C36: message_dispatcher called in debug mode with its default arguments
\* does not return at the first test of its while loop: it returns after a
\* pass over server_messages and client_messages.
C36_DefaultDebugCallMakesAPass ==
    [][(/\ last.op = "message_dispatcher" /\ last.update_val = <<0>>
        /\ disp[1].pc # "done" /\ disp'[1].pc = "done")
          => disp[1].pc # "loop"]_vars

\* C37: the delivery state of a recipient entry does not go back. In every
\* step, a message_sent_at that is not None keeps its value and a
\* message_received_at that is not None stays not None; and the stamp of the
\* dispatcher writes message_sent_at only where it is None, so that a time
\* once written is not replaced by the time of a later stamp.
C37_DeliveryStateNeverRegresses ==
    [][/\ \A h \in {"server", "client"} :
             \A m \in Range(handler_of(h, server_messages, client_messages).waiting_messages) :
                 \A n \in Range(handler_of(h, server_messages', client_messages').waiting_messages) :
                     m.message_id = n.message_id =>
                         \A j \in 1..Len(m.broadcasted) :
                             /\ m.broadcasted[j].message_sent_at # NULL =>
                                    n.broadcasted[j].message_sent_at = m.broadcasted[j].message_sent_at
                             /\ m.broadcasted[j].message_received_at # NULL =>
                                    n.broadcasted[j].message_received_at # NULL
       /\ (StampWrite(1) /\ ~last.err) =>
              \A ap \in last.result :
                  LET wm == handler_of(disp[1].handler, server_messages, client_messages).waiting_messages
                  IN  (ap[1] <= Len(wm) /\ ap[2] # NULL /\ ap[2] <= Len(wm[ap[1]].broadcasted))
                          => wm[ap[1]].broadcasted[ap[2]].message_sent_at = NULL]_vars

\* C34: when a client disconnects the stored peer messages stay as they
\* are, its pending recipient entries among them; and once a client has
\* registered again under that username, a pass of the dispatcher over
\* client_messages takes up every message with a pending entry for it, to
\* transmit it to the connection the username now has.
C34_PendingResumesOnRejoin ==
    [][/\ \A c \in Conns : ClientDisconnected(c) => client_messages' = client_messages
       /\ (DispatcherScan(1) /\ disp[1].handler = "client") =>
              \A m \in Range(client_messages.waiting_messages) :
                  \A j \in 1..Len(m.broadcasted) :
                      (/\ m.broadcasted[j].message_sent_at = NULL
                       /\ registered_again(m.broadcasted[j].client_name)
                       /\ recipient_client_socket(m.broadcasted[j].client_name) # NULL)
                          => \E k \in 1..Len(disp'[1].msgs) :
                                 disp'[1].msgs[k].message_id = m.message_id]_vars

====
